---- MODULE Spec2Model ----
(***************************************************************************)
(* A model of the MCP filesystem server (src/mcp-fs-http/server.ts and its *)
(* read-only variant): the path guard safePath, the tool handlers over a   *)
(* POSIX filesystem, and the session registry behind /mcp.                 *)
(*                                                                         *)
(* Strings are sequences of one-character strings, so that trimming,       *)
(* prefix tests and normalisation are computed character by character as   *)
(* the code (and Node's posix path module it calls) computes them.         *)
(***************************************************************************)
EXTENDS Integers, Sequences, FiniteSets, Bags, TLC

VARIABLES
    allowedBaseAbs, \* server.ts:42, fixed at process start
    raw,            \* PathSpec: the requested path being typed by a caller
    resolved,       \* PathSpec: the outcome of safePath(raw), or NotCalled
    fs,             \* the filesystem the fs/promises calls act on
    variant,        \* "rw" (server.ts) or "ro" (the read-only server)
    sessions,       \* the token map: session id -> SessionEntry
    transports,     \* every transport created so far, by its identity
    nextId,         \* how many sessions createSession has created
    closing,        \* DELETE requests suspended at await transport.close()
    last            \* the last request handled and the response it got

(***************************************************************************)
(* Bounds.                                                                 *)
(***************************************************************************)
MaxPathLen == 7
MaxFileSize == 4
MaxFsPathLen == 8
MaxSessions == 2
MaxInflight == 2

(***************************************************************************)
(* Characters and strings.                                                 *)
(***************************************************************************)
Sep == "/"          \* path.sep on POSIX
Dot == "."
Space == " "        \* the one whitespace character of the alphabet
Chars == {Sep, Dot, Space, "b"}

EmptyStr == << >>

StartsWith(s, prefix) ==
    /\ Len(prefix) <= Len(s)
    /\ SubSeq(s, 1, Len(prefix)) = prefix

IsWhitespace(c) == c = Space

\* String.prototype.trim: whitespace removed from both ends.
RECURSIVE TrimStart(_)
TrimStart(s) ==
    IF s # EmptyStr /\ IsWhitespace(Head(s)) THEN TrimStart(Tail(s)) ELSE s

RECURSIVE TrimEnd(_)
TrimEnd(s) ==
    IF s # EmptyStr /\ IsWhitespace(s[Len(s)])
    THEN TrimEnd(SubSeq(s, 1, Len(s) - 1))
    ELSE s

Trim(s) == TrimEnd(TrimStart(s))

(***************************************************************************)
(* Node's posix path module, as called by safePath and the handlers.       *)
(***************************************************************************)
\* path.isAbsolute (posix): the path starts with a slash.
PathIsAbsolute(p) == p # EmptyStr /\ Head(p) = Sep

\* The last "/" of s, 0 when there is none.
RECURSIVE LastSepIndex(_)
LastSepIndex(s) ==
    IF s = EmptyStr THEN 0
    ELSE IF s[Len(s)] = Sep THEN Len(s)
    ELSE LastSepIndex(SubSeq(s, 1, Len(s) - 1))

\* normalizeString(path, allowAboveRoot = false): one segment ends at each
\* "/" and at the end of the string; "" and "." are skipped, ".." drops the
\* last segment kept so far (and is itself dropped at the root), any other
\* segment is appended after a "/" unless it is the first.
NormStep(res, seg) ==
    IF seg = EmptyStr \/ seg = <<Dot>> THEN res
    ELSE IF seg = <<Dot, Dot>>
    THEN LET i == LastSepIndex(res)
         IN  IF i = 0 THEN EmptyStr ELSE SubSeq(res, 1, i - 1)
    ELSE IF res = EmptyStr THEN seg ELSE res \o <<Sep>> \o seg

RECURSIVE NormalizeString(_, _, _)
NormalizeString(path, res, seg) ==
    IF path = EmptyStr THEN NormStep(res, seg)
    ELSE IF Head(path) = Sep
    THEN NormalizeString(Tail(path), NormStep(res, seg), EmptyStr)
    ELSE NormalizeString(Tail(path), res, Append(seg, Head(path)))

\* path.resolve(to) for an absolute `to`, and path.resolve(from, to) for an
\* absolute `from` and a relative `to`: the rightmost absolute argument and
\* what follows it, joined by "/", normalised, with one leading "/".
PathResolve1(to) == <<Sep>> \o NormalizeString(to, EmptyStr, EmptyStr)

PathResolve2(from, to) ==
    <<Sep>> \o NormalizeString(from \o <<Sep>> \o to, EmptyStr, EmptyStr)

\* path.normalize (posix): keeps a trailing separator, unlike resolve.
PathNormalize(p) ==
    IF p = EmptyStr THEN <<Dot>>
    ELSE LET isAbsolute == Head(p) = Sep
             trailingSeparator == p[Len(p)] = Sep
             n == NormalizeString(p, EmptyStr, EmptyStr)
         IN  IF n = EmptyStr
             THEN IF isAbsolute THEN <<Sep>>
                  ELSE IF trailingSeparator THEN <<Dot, Sep>> ELSE <<Dot>>
             ELSE LET m == IF trailingSeparator THEN Append(n, Sep) ELSE n
                  IN  IF isAbsolute THEN <<Sep>> \o m ELSE m

\* path.dirname (posix) of an absolute normalised path.
PathDirname(p) ==
    LET i == LastSepIndex(p)
    IN  IF i <= 1 THEN <<Sep>> ELSE SubSeq(p, 1, i - 1)

(***************************************************************************)
(* safePath (server.ts:49-65).  ok = FALSE is the thrown "Path not         *)
(* allowed" error, which carries the offending normalised path.            *)
(***************************************************************************)
\* Faulty guards: one forgets the separator boundary, one accepts anything.
ContainedNoSep(normAbs, normBase) ==
    StartsWith(normAbs, normBase) \/ normAbs = normBase

ContainedAlways(normAbs, normBase) == TRUE

\* The containment test of line 61, written as the condition to accept.
Contained(normAbs, normBase) ==
    StartsWith(normAbs, normBase \o <<Sep>>) \/ normAbs = normBase

safePathIn(base, rawPath) ==
    LET trimmed == Trim(rawPath)
    IN  IF trimmed = EmptyStr \/ trimmed = <<Dot>>
        THEN [ok |-> TRUE, path |-> base]
        ELSE LET abs == IF PathIsAbsolute(trimmed)
                        THEN PathResolve1(trimmed)
                        ELSE PathResolve2(base, trimmed)
                 normAbs == PathNormalize(abs)
                 normBase == PathNormalize(base)
             IN  [ok |-> Contained(normAbs, normBase), path |-> normAbs]

safePath(rawPath) == safePathIn(allowedBaseAbs, rawPath)

(***************************************************************************)
(* Text and bytes.  A string is a run-length sequence of code units and a  *)
(* file's content a run-length sequence of bytes: <<[c |-> x, n |-> k]>>   *)
(* is k copies of x, and no two neighbouring runs hold the same x.  The    *)
(* code units are "a" (ASCII), "e'" (U+00E9, two bytes in UTF-8), "hs" (a  *)
(* lone surrogate, which JSON can carry and UTF-8 cannot) and "rc" (the    *)
(* replacement character U+FFFD).                                          *)
(***************************************************************************)
DefaultMaxBytes == 1048576      \* 1024 * 1024

Run(x, k) == <<[c |-> x, n |-> k]>>

\* Concatenation (string + string, or bytes appended to bytes).
RCat(x, y) ==
    IF x = << >> THEN y
    ELSE IF y = << >> THEN x
    ELSE IF x[Len(x)].c = y[1].c
    THEN SubSeq(x, 1, Len(x) - 1)
         \o Run(y[1].c, x[Len(x)].n + y[1].n)
         \o Tail(y)
    ELSE x \o y

RECURSIVE RLen(_)
RLen(x) == IF x = << >> THEN 0 ELSE x[1].n + RLen(Tail(x))

\* buf.subarray(0, k)
RECURSIVE RTake(_, _)
RTake(x, k) ==
    IF k <= 0 \/ x = << >> THEN << >>
    ELSE IF x[1].n <= k THEN RCat(<<x[1]>>, RTake(Tail(x), k - x[1].n))
    ELSE Run(x[1].c, k)

\* Without its first element.
RDrop1(x) ==
    IF x = << >> THEN << >>
    ELSE IF x[1].n > 1 THEN Run(x[1].c, x[1].n - 1) \o Tail(x)
    ELSE Tail(x)

RPeek(x) == IF x = << >> THEN "" ELSE x[1].c

\* The UTF-8 bytes of one code unit: a lone surrogate is written as U+FFFD.
Utf8Unit(u) ==
    CASE u = "a" -> Run("61", 1)
      [] u = "e'" -> Run("C3", 1) \o Run("A9", 1)
      [] u = "hs" -> Run("EF", 1) \o Run("BF", 1) \o Run("BD", 1)
      [] u = "rc" -> Run("EF", 1) \o Run("BF", 1) \o Run("BD", 1)

RECURSIVE Utf8Repeat(_, _)
Utf8Repeat(u, k) ==
    IF k = 0 THEN << >> ELSE RCat(Utf8Unit(u), Utf8Repeat(u, k - 1))

\* Buffer.from(str, "utf8"), as writeFile and appendFile encode their data.
RECURSIVE Utf8Encode(_)
Utf8Encode(str) ==
    IF str = << >> THEN << >>
    ELSE RCat(IF str[1].c = "a" THEN Run("61", str[1].n)
              ELSE Utf8Repeat(str[1].c, str[1].n),
              Utf8Encode(Tail(str)))

\* buf.toString("utf8"): every ill-formed or cut-off sequence decodes to one
\* U+FFFD.
RECURSIVE Utf8Decode(_)
Utf8Decode(bytes) ==
    IF bytes = << >> THEN << >>
    ELSE IF bytes[1].c = "61"
    THEN RCat(Run("a", bytes[1].n), Utf8Decode(Tail(bytes)))
    ELSE LET b1 == bytes[1].c
             rest1 == RDrop1(bytes)
             b2 == RPeek(rest1)
             rest2 == RDrop1(rest1)
             b3 == RPeek(rest2)
             rest3 == RDrop1(rest2)
         IN  IF b1 = "C3" /\ b2 = "A9"
             THEN RCat(Run("e'", 1), Utf8Decode(rest2))
             ELSE IF b1 = "EF" /\ b2 = "BF" /\ b3 = "BD"
             THEN RCat(Run("rc", 1), Utf8Decode(rest3))
             ELSE IF b1 = "EF" /\ b2 = "BF"
             THEN RCat(Run("rc", 1), Utf8Decode(rest2))
             ELSE RCat(Run("rc", 1), Utf8Decode(rest1))

(***************************************************************************)
(* The filesystem (POSIX): a function from the absolute normalised paths   *)
(* that exist to their entries.  "/" always exists.  The operators below   *)
(* are the fs/promises calls the handlers make; err = "" is success.       *)
(***************************************************************************)
DirEntry == [type |-> "dir", data |-> << >>]
FileEntry(bytes) == [type |-> "file", data |-> bytes]

Exists(f, p) == p \in DOMAIN f
IsDir(f, p) == Exists(f, p) /\ f[p].type = "dir"
IsFile(f, p) == Exists(f, p) /\ f[p].type = "file"

\* q is strictly below the directory p.
Below(p, q) ==
    /\ q # p
    /\ StartsWith(q, IF p = <<Sep>> THEN p ELSE p \o <<Sep>>)

EmptyMap == [q \in {} |-> q]

Put(f, p, e) == [q \in DOMAIN f \cup {p} |-> IF q = p THEN e ELSE f[q]]
Remove(f, gone) == [q \in DOMAIN f \ gone |-> f[q]]

\* The error of looking up a path that does not exist.
RECURSIVE MissingErr(_, _)
MissingErr(f, p) ==
    LET d == PathDirname(p)
    IN  IF Exists(f, d)
        THEN IF f[d].type = "dir" THEN "ENOENT" ELSE "ENOTDIR"
        ELSE MissingErr(f, d)

\* fs.stat
Stat(f, p) ==
    IF Exists(f, p) THEN [err |-> "", type |-> f[p].type]
    ELSE [err |-> MissingErr(f, p), type |-> ""]

\* fs.mkdir(p, { recursive: true }): creates p and its missing ancestors;
\* succeeds on an existing directory; fails, creating nothing, when p is a
\* file or lies under one.
RECURSIVE MkdirRecursive(_, _)
MkdirRecursive(f, p) ==
    IF Exists(f, p)
    THEN [err |-> IF f[p].type = "dir" THEN "" ELSE "EEXIST", fs |-> f]
    ELSE LET up == MkdirRecursive(f, PathDirname(p))
         IN  IF up.err = "" THEN [err |-> "", fs |-> Put(up.fs, p, DirEntry)]
             ELSE [err |-> "ENOTDIR", fs |-> f]

\* fs.writeFile(p, data, "utf8"): creates or truncates and writes.
WriteFile(f, p, bytes) ==
    IF Exists(f, p)
    THEN IF f[p].type = "dir" THEN [err |-> "EISDIR", fs |-> f]
         ELSE [err |-> "", fs |-> Put(f, p, FileEntry(bytes))]
    ELSE IF IsDir(f, PathDirname(p))
    THEN [err |-> "", fs |-> Put(f, p, FileEntry(bytes))]
    ELSE [err |-> MissingErr(f, p), fs |-> f]

\* fs.appendFile(p, data, "utf8"): creates the file or writes at its end.
AppendFile(f, p, bytes) ==
    IF Exists(f, p)
    THEN IF f[p].type = "dir" THEN [err |-> "EISDIR", fs |-> f]
         ELSE [err |-> "", fs |-> Put(f, p, FileEntry(RCat(f[p].data, bytes)))]
    ELSE IF IsDir(f, PathDirname(p))
    THEN [err |-> "", fs |-> Put(f, p, FileEntry(bytes))]
    ELSE [err |-> MissingErr(f, p), fs |-> f]

\* fs.readFile(p)
ReadFile(f, p) ==
    IF Exists(f, p)
    THEN IF f[p].type = "dir" THEN [err |-> "EISDIR", data |-> << >>]
         ELSE [err |-> "", data |-> f[p].data]
    ELSE [err |-> MissingErr(f, p), data |-> << >>]

Basename(p) == SubSeq(p, LastSepIndex(p) + 1, Len(p))

\* fs.readdir(p, { withFileTypes: true }) of a directory.
Readdir(f, p) ==
    { [name |-> Basename(q), isDirectory |-> f[q].type = "dir"] :
        q \in {x \in DOMAIN f : x # p /\ PathDirname(x) = p} }

\* The entries at and below p, moved to the same places at and below q.
Moved(f, p, q) ==
    LET src == {x \in DOMAIN f : x = p \/ Below(p, x)}
        to(x) == q \o SubSeq(x, Len(p) + 1, Len(x))
        rest == Remove(f, src \cup {x \in DOMAIN f : x = q \/ Below(q, x)})
    IN  [y \in DOMAIN rest \cup {to(x) : x \in src} |->
            IF y \in DOMAIN rest THEN rest[y]
            ELSE f[CHOOSE x \in src : to(x) = y]]

\* A rename that leaves the source where it was.
RenameKeepsSource(f, old, new) ==
    IF ~Exists(f, old) THEN [err |-> MissingErr(f, old), fs |-> f]
    ELSE IF ~IsDir(f, PathDirname(new))
    THEN [err |-> MissingErr(f, new), fs |-> f]
    ELSE IF old = new THEN [err |-> "", fs |-> f]
    ELSE IF IsDir(f, old) \/ IsDir(f, new) THEN [err |-> "EISDIR", fs |-> f]
    ELSE [err |-> "", fs |-> Put(f, new, f[old])]

\* A rename that replaces its destination whatever it is.
RenameReplacesAny(f, old, new) ==
    IF ~Exists(f, old) THEN [err |-> MissingErr(f, old), fs |-> f]
    ELSE IF ~IsDir(f, PathDirname(new))
    THEN [err |-> MissingErr(f, new), fs |-> f]
    ELSE IF old = new THEN [err |-> "", fs |-> f]
    ELSE IF IsDir(f, old) /\ Below(old, new) THEN [err |-> "EINVAL", fs |-> f]
    ELSE [err |-> "", fs |-> Moved(f, old, new)]

\* fs.rename(old, new), rename(2).
Rename(f, old, new) ==
    IF ~Exists(f, old) THEN [err |-> MissingErr(f, old), fs |-> f]
    ELSE IF ~IsDir(f, PathDirname(new))
    THEN [err |-> MissingErr(f, new), fs |-> f]
    ELSE IF old = new THEN [err |-> "", fs |-> f]
    ELSE IF IsDir(f, old) /\ Below(old, new) THEN [err |-> "EINVAL", fs |-> f]
    ELSE IF IsDir(f, old) /\ IsFile(f, new) THEN [err |-> "ENOTDIR", fs |-> f]
    ELSE IF IsFile(f, old) /\ IsDir(f, new) THEN [err |-> "EISDIR", fs |-> f]
    ELSE IF IsDir(f, new) /\ \E x \in DOMAIN f : Below(new, x)
    THEN [err |-> "ENOTEMPTY", fs |-> f]
    ELSE [err |-> "", fs |-> Moved(f, old, new)]

\* A removal that takes everything whose path starts with p's characters.
RmRecursivePrefix(f, p) ==
    [err |-> "", fs |-> Remove(f, {x \in DOMAIN f : StartsWith(x, p)})]

\* fs.rm(p, { recursive: true, force: true })
RmRecursive(f, p) ==
    [err |-> "", fs |-> Remove(f, {x \in DOMAIN f : x = p \/ Below(p, x)})]

\* fs.unlink(p)
Unlink(f, p) ==
    IF ~Exists(f, p) THEN [err |-> MissingErr(f, p), fs |-> f]
    ELSE IF f[p].type = "dir" THEN [err |-> "EISDIR", fs |-> f]
    ELSE [err |-> "", fs |-> Remove(f, {p})]

\* A copy that removes its source.
CopyFileMoves(f, src, dest) ==
    IF ~IsFile(f, src) THEN [err |-> MissingErr(f, src), fs |-> f]
    ELSE IF src = dest THEN [err |-> "", fs |-> f]
    ELSE IF IsDir(f, dest) THEN [err |-> "EISDIR", fs |-> f]
    ELSE IF ~IsDir(f, PathDirname(dest))
    THEN [err |-> MissingErr(f, dest), fs |-> f]
    ELSE [err |-> "", fs |-> Put(Remove(f, {src}), dest, FileEntry(f[src].data))]

\* fs.copyFile(src, dest) of a regular file src: copying a file onto itself
\* changes nothing.
CopyFile(f, src, dest) ==
    IF ~IsFile(f, src) THEN [err |-> MissingErr(f, src), fs |-> f]
    ELSE IF src = dest THEN [err |-> "", fs |-> f]
    ELSE IF IsDir(f, dest) THEN [err |-> "EISDIR", fs |-> f]
    ELSE IF ~IsDir(f, PathDirname(dest))
    THEN [err |-> MissingErr(f, dest), fs |-> f]
    ELSE [err |-> "", fs |-> Put(f, dest, FileEntry(f[src].data))]

(***************************************************************************)
(* The tool handlers (server.ts:75-287).  Each is the whole handler: the   *)
(* filesystem it leaves, res = "ok" or the error thrown, the payload `out` *)
(* of a success, and the filesystem calls made, in order.                  *)
(***************************************************************************)
FsCall(fn, p) == [fn |-> fn, path |-> p]

Thrown(f, err, calls) ==
    [fs |-> f, res |-> err, out |-> << >>, calls |-> calls]
Returned(f, out, calls) ==
    [fs |-> f, res |-> "ok", out |-> out, calls |-> calls]

\* An optional argument is the empty set or a singleton.
OrElse(opt, default) == IF opt = {} THEN default ELSE CHOOSE x \in opt : TRUE

fs_list(f, optPath) ==
    LET sp == safePath(OrElse(optPath, EmptyStr))   \* raw ?? ""
        abs == sp.path
        st == Stat(f, abs)
        c1 == <<FsCall("stat", abs)>>
    IN  IF ~sp.ok THEN Thrown(f, "Path not allowed", << >>)
        ELSE IF st.err # "" THEN Thrown(f, st.err, c1)
        ELSE IF st.type # "dir" THEN Thrown(f, "Not a directory", c1)
        ELSE Returned(f, Readdir(f, abs), c1 \o <<FsCall("readdir", abs)>>)

fs_read(f, path, maxBytes) ==
    LET sp == safePath(path)
        abs == sp.path
        st == Stat(f, abs)
        c1 == <<FsCall("stat", abs)>>
        c2 == c1 \o <<FsCall("readFile", abs)>>
        limit == OrElse(maxBytes, DefaultMaxBytes)
        buf == ReadFile(f, abs)
        len == RLen(buf.data)
        sliced == RTake(buf.data, IF len < limit THEN len ELSE limit)
    IN  IF ~sp.ok THEN Thrown(f, "Path not allowed", << >>)
        ELSE IF st.err # "" THEN Thrown(f, st.err, c1)
        ELSE IF st.type # "file" THEN Thrown(f, "Not a file", c1)
        ELSE IF buf.err # "" THEN Thrown(f, buf.err, c2)
        ELSE Returned(f, Utf8Decode(sliced), c2)

read_file(f, path, maxBytes) ==
    LET sp == safePath(path)
        abs == sp.path
        st == Stat(f, abs)
        c1 == <<FsCall("stat", abs)>>
        c2 == c1 \o <<FsCall("readFile", abs)>>
        limit == OrElse(maxBytes, DefaultMaxBytes)
        buf == ReadFile(f, abs)
        len == RLen(buf.data)
        sliced == RTake(buf.data, IF len < limit THEN len ELSE limit)
    IN  IF ~sp.ok THEN Thrown(f, "Path not allowed", << >>)
        ELSE IF st.err # "" THEN Thrown(f, st.err, c1)
        ELSE IF st.type # "file" THEN Thrown(f, "Not a file", c1)
        ELSE IF buf.err # "" THEN Thrown(f, buf.err, c2)
        ELSE Returned(f, Utf8Decode(sliced), c2)

\* A handler that writes without creating the parent directories.
fs_write_no_mkdir(f, path, content) ==
    LET sp == safePath(path)
        abs == sp.path
        w == WriteFile(f, abs, Utf8Encode(content))
        c1 == <<FsCall("writeFile", abs)>>
    IN  IF ~sp.ok THEN Thrown(f, "Path not allowed", << >>)
        ELSE IF w.err # "" THEN Thrown(f, w.err, c1)
        ELSE Returned(w.fs, << >>, c1)

fs_write(f, path, content) ==
    LET sp == safePath(path)
        abs == sp.path
        m == MkdirRecursive(f, PathDirname(abs))
        c1 == <<FsCall("mkdir", PathDirname(abs))>>
        w == WriteFile(m.fs, abs, Utf8Encode(content))
        c2 == c1 \o <<FsCall("writeFile", abs)>>
    IN  IF ~sp.ok THEN Thrown(f, "Path not allowed", << >>)
        ELSE IF m.err # "" THEN Thrown(m.fs, m.err, c1)
        ELSE IF w.err # "" THEN Thrown(w.fs, w.err, c2)
        ELSE Returned(w.fs, << >>, c2)

write_file(f, path, content) ==
    LET sp == safePath(path)
        abs == sp.path
        m == MkdirRecursive(f, PathDirname(abs))
        c1 == <<FsCall("mkdir", PathDirname(abs))>>
        w == WriteFile(m.fs, abs, Utf8Encode(content))
        c2 == c1 \o <<FsCall("writeFile", abs)>>
    IN  IF ~sp.ok THEN Thrown(f, "Path not allowed", << >>)
        ELSE IF m.err # "" THEN Thrown(m.fs, m.err, c1)
        ELSE IF w.err # "" THEN Thrown(w.fs, w.err, c2)
        ELSE Returned(w.fs, << >>, c2)

\* A handler that appends by rewriting the file with the new content only.
fs_append_overwrites(f, path, content) == fs_write(f, path, content)

fs_append(f, path, content) ==
    LET sp == safePath(path)
        abs == sp.path
        m == MkdirRecursive(f, PathDirname(abs))
        c1 == <<FsCall("mkdir", PathDirname(abs))>>
        w == AppendFile(m.fs, abs, Utf8Encode(content))
        c2 == c1 \o <<FsCall("appendFile", abs)>>
    IN  IF ~sp.ok THEN Thrown(f, "Path not allowed", << >>)
        ELSE IF m.err # "" THEN Thrown(m.fs, m.err, c1)
        ELSE IF w.err # "" THEN Thrown(w.fs, w.err, c2)
        ELSE Returned(w.fs, << >>, c2)

fs_mkdir(f, path) ==
    LET sp == safePath(path)
        abs == sp.path
        m == MkdirRecursive(f, abs)
        c1 == <<FsCall("mkdir", abs)>>
    IN  IF ~sp.ok THEN Thrown(f, "Path not allowed", << >>)
        ELSE IF m.err # "" THEN Thrown(m.fs, m.err, c1)
        ELSE Returned(m.fs, << >>, c1)

fs_rename(f, oldPath, newPath) ==
    LET spOld == safePath(oldPath)
        spNew == safePath(newPath)
        absOld == spOld.path
        absNew == spNew.path
        m == MkdirRecursive(f, PathDirname(absNew))
        c1 == <<FsCall("mkdir", PathDirname(absNew))>>
        r == Rename(m.fs, absOld, absNew)
        c2 == c1 \o <<FsCall("rename", absOld), FsCall("rename", absNew)>>
    IN  IF ~spOld.ok \/ ~spNew.ok THEN Thrown(f, "Path not allowed", << >>)
        ELSE IF m.err # "" THEN Thrown(m.fs, m.err, c1)
        ELSE IF r.err # "" THEN Thrown(r.fs, r.err, c2)
        ELSE Returned(r.fs, << >>, c2)

\* A handler without the safeguard of lines 250-253.
fs_delete_unguarded(f, path) ==
    LET sp == safePath(path)
        abs == sp.path
        st == Stat(f, abs)
        c1 == <<FsCall("stat", abs)>>
        rm == RmRecursive(f, abs)
        un == Unlink(f, abs)
    IN  IF ~sp.ok THEN Thrown(f, "Path not allowed", << >>)
        ELSE IF st.err # "" THEN Thrown(f, st.err, c1)
        ELSE IF st.type = "dir"
        THEN Returned(rm.fs, << >>, c1 \o <<FsCall("rm", abs)>>)
        ELSE IF un.err # "" THEN Thrown(un.fs, un.err, c1 \o <<FsCall("unlink", abs)>>)
        ELSE Returned(un.fs, << >>, c1 \o <<FsCall("unlink", abs)>>)

fs_delete(f, path) ==
    LET sp == safePath(path)
        abs == sp.path
        st == Stat(f, abs)
        c1 == <<FsCall("stat", abs)>>
        rm == RmRecursive(f, abs)
        un == Unlink(f, abs)
    IN  IF ~sp.ok THEN Thrown(f, "Path not allowed", << >>)
        ELSE IF abs = allowedBaseAbs
        THEN Thrown(f, "Cannot delete ALLOWED_BASE", << >>)
        ELSE IF st.err # "" THEN Thrown(f, st.err, c1)
        ELSE IF st.type = "dir"
        THEN Returned(rm.fs, << >>, c1 \o <<FsCall("rm", abs)>>)
        ELSE IF un.err # "" THEN Thrown(un.fs, un.err, c1 \o <<FsCall("unlink", abs)>>)
        ELSE Returned(un.fs, << >>, c1 \o <<FsCall("unlink", abs)>>)

\* A handler that resolves the destination only after looking at the source.
fs_copy_stat_first(f, srcPath, destPath) ==
    LET spSrc == safePath(srcPath)
        spDest == safePath(destPath)
        absSrc == spSrc.path
        absDest == spDest.path
        st == Stat(f, absSrc)
        c1 == <<FsCall("stat", absSrc)>>
        m == MkdirRecursive(f, PathDirname(absDest))
        c2 == c1 \o <<FsCall("mkdir", PathDirname(absDest))>>
        cp == CopyFile(m.fs, absSrc, absDest)
        c3 == c2 \o <<FsCall("copyFile", absSrc), FsCall("copyFile", absDest)>>
    IN  IF ~spSrc.ok THEN Thrown(f, "Path not allowed", << >>)
        ELSE IF st.err # "" THEN Thrown(f, st.err, c1)
        ELSE IF st.type # "file" THEN Thrown(f, "Source is not a file", c1)
        ELSE IF ~spDest.ok THEN Thrown(f, "Path not allowed", c1)
        ELSE IF m.err # "" THEN Thrown(m.fs, m.err, c2)
        ELSE IF cp.err # "" THEN Thrown(cp.fs, cp.err, c3)
        ELSE Returned(cp.fs, << >>, c3)

fs_copy(f, srcPath, destPath) ==
    LET spSrc == safePath(srcPath)
        spDest == safePath(destPath)
        absSrc == spSrc.path
        absDest == spDest.path
        st == Stat(f, absSrc)
        c1 == <<FsCall("stat", absSrc)>>
        m == MkdirRecursive(f, PathDirname(absDest))
        c2 == c1 \o <<FsCall("mkdir", PathDirname(absDest))>>
        cp == CopyFile(m.fs, absSrc, absDest)
        c3 == c2 \o <<FsCall("copyFile", absSrc), FsCall("copyFile", absDest)>>
    IN  IF ~spSrc.ok \/ ~spDest.ok THEN Thrown(f, "Path not allowed", << >>)
        ELSE IF st.err # "" THEN Thrown(f, st.err, c1)
        ELSE IF st.type # "file" THEN Thrown(f, "Source is not a file", c1)
        ELSE IF m.err # "" THEN Thrown(m.fs, m.err, c2)
        ELSE IF cp.err # "" THEN Thrown(cp.fs, cp.err, c3)
        ELSE Returned(cp.fs, << >>, c3)

(***************************************************************************)
(* Sessions (server.ts:292-314) and the transport each one owns.  A        *)
(* session id is <<"uuid", k>> for the k-th call of randomUUID: ids never  *)
(* repeat.  A transport is known by its creation index, and so is the      *)
(* McpServer connected to it.                                              *)
(***************************************************************************)
\* An id generator that returns the same id every time.
randomUUIDFixed == <<"uuid", 1>>

randomUUID == <<"uuid", nextId + 1>>

\* A token no createSession ever returned.
ForgedToken == <<"forged", 0>>

IssuedTokens == { <<"uuid", k>> : k \in 1..nextId }

\* new StreamableHTTPServerTransport(...): not initialised, never closed,
\* no server-push stream open.
NewTransport == [initialized |-> FALSE, closes |-> 0, sse |-> FALSE]

\* One transport and one server made once and handed to every session.
NewEntryShared == [transport |-> 1, mcp |-> 1]

\* createSession(): the entry it builds and the registry it leaves.
NewEntry == [transport |-> nextId + 1, mcp |-> nextId + 1]

SessionsAfterCreate == Put(sessions, randomUUID, NewEntry)

TransportsAfterCreate == Put(transports, nextId + 1, NewTransport)

\* sessions.get(headerSid), when the header is present: the entry, if any.
Lookup(header) ==
    IF header # {} /\ (CHOOSE t \in header : TRUE) \in DOMAIN sessions
    THEN {sessions[CHOOSE t \in header : TRUE]}
    ELSE {}

\* The mcp-session-id header of a request: absent, a forged token, or any
\* token issued so far.
Headers == {{}} \cup { {t} : t \in IssuedTokens \cup {ForgedToken} }

\* transport.handleRequest (the SDK's StreamableHTTPServerTransport): an
\* initialize request initialises the transport once; every other request
\* needs an initialised transport; one server-push stream at a time.
TransportHandle(tr, method, kind) ==
    IF method = "POST" /\ kind = "initialize"
    THEN IF tr.initialized
         THEN [tr |-> tr, status |-> "400", code |-> "-32600", run |-> FALSE]
         ELSE [tr |-> [tr EXCEPT !.initialized = TRUE],
               status |-> "200", code |-> "", run |-> FALSE]
    ELSE IF ~tr.initialized
    THEN [tr |-> tr, status |-> "400", code |-> "-32000", run |-> FALSE]
    ELSE IF method = "GET"
    THEN IF tr.sse
         THEN [tr |-> tr, status |-> "409", code |-> "-32000", run |-> FALSE]
         ELSE [tr |-> [tr EXCEPT !.sse = TRUE],
               status |-> "200", code |-> "", run |-> FALSE]
    ELSE [tr |-> tr, status |-> "200", code |-> "", run |-> kind = "call"]

\* A close that releases nothing.
TransportCloseNoop(tr) == tr

\* transport.close(): ends the server-push stream.
TransportClose(tr) == [tr EXCEPT !.closes = tr.closes + 1, !.sse = FALSE]

\* A read-only server that registers the writing tools as well.
RegisteredToolsAll ==
    {"fs_list", "fs_read", "read_file", "fs_write", "write_file",
     "fs_append", "fs_mkdir", "fs_rename", "fs_delete", "fs_copy"}

\* The tools each server registers (createMcpServer).
RegisteredTools ==
    IF variant = "rw"
    THEN {"fs_list", "fs_read", "read_file", "fs_write", "write_file",
          "fs_append", "fs_mkdir", "fs_rename", "fs_delete", "fs_copy"}
    ELSE {"fs_list", "fs_read", "read_file"}

NoRequest ==
    [method |-> "none", sid |-> {}, kind |-> "none", status |-> "none",
     code |-> "", created |-> {}, routed |-> {}, op |-> "none",
     res |-> "none"]

Response(method, header, kind, status, code, created, routed) ==
    [method |-> method, sid |-> header, kind |-> kind, status |-> status,
     code |-> code, created |-> created, routed |-> routed, op |-> "none",
     res |-> "none"]

(***************************************************************************)
(* app.all("/mcp") (server.ts:346-416) and the admin route.  The server    *)
(* runs one handler at a time up to its next await: a handler step leaves  *)
(* its response in `last`, and ResponseSent is the response going out,     *)
(* after which the next request's handler step can run.                    *)
(***************************************************************************)
Idle == last = NoRequest

ResponseSent ==
    /\ ~Idle
    /\ last' = NoRequest
    /\ UNCHANGED <<allowedBaseAbs, raw, resolved, fs, variant, sessions,
                   transports, nextId, closing>>

\* The request is handed to the session of its token or, when `create`, to
\* a session created for it.
Dispatch(method, header, kind, create) ==
    LET entry == IF create THEN NewEntry
                 ELSE CHOOSE e \in Lookup(header) : TRUE
        trs == IF create THEN TransportsAfterCreate ELSE transports
        h == TransportHandle(trs[entry.transport], method, kind)
    IN  /\ create => nextId < MaxSessions
        /\ sessions' = IF create THEN SessionsAfterCreate ELSE sessions
        /\ nextId' = IF create THEN nextId + 1 ELSE nextId
        /\ transports' = [trs EXCEPT ![entry.transport] = h.tr]
        /\ last' = Response(method, header, kind, h.status, h.code,
                            IF create THEN {randomUUID} ELSE {},
                            {entry.transport})

\* GET: the server-push stream; a session is created when none is found.
HandleGet ==
    \E header \in Headers :
        /\ Idle
        /\ Dispatch("GET", header, "stream", Lookup(header) = {})
        /\ UNCHANGED <<allowedBaseAbs, raw, resolved, fs, variant, closing>>

\* Lines 381-382: no session and not an initialize request.
MustRejectNever(found, kind) == FALSE

MustReject(found, kind) == found = {} /\ kind # "initialize"

\* POST: an initialize request, any other JSON-RPC request, or a tool call
\* that finds no session.  (A tool call that finds one is a Call action.)
HandlePost ==
    \E header \in Headers, kind \in {"initialize", "other", "call"} :
        /\ Idle
        /\ kind = "call" => Lookup(header) = {}
        /\ IF MustReject(Lookup(header), kind)
           THEN /\ last' = Response("POST", header, kind, "400", "-32000",
                                    {}, {})
                /\ UNCHANGED <<sessions, transports, nextId>>
           ELSE Dispatch("POST", header, kind, Lookup(header) = {})
        /\ UNCHANGED <<allowedBaseAbs, raw, resolved, fs, variant, closing>>

\* sessions.delete(headerSid)
SessionsAfterDeleteKept(sid) == sessions

SessionsAfterDelete(sid) == Remove(sessions, {sid})

\* DELETE, up to its await: with a session, transport.close() is called and
\* the handler is suspended; without one it answers 200 at once.
DeleteBegin ==
    \E header \in Headers :
        /\ Idle
        /\ IF Lookup(header) # {}
           THEN LET sid == CHOOSE t \in header : TRUE
                    entry == sessions[sid]
                IN  /\ BagCardinality(closing) < MaxInflight
                    /\ transports' =
                         [transports EXCEPT ![entry.transport] =
                             TransportClose(transports[entry.transport])]
                    /\ closing' = closing (+) SetToBag({sid})
                    /\ last' = Response("DELETE", header, "close", "pending",
                                        "", {}, {entry.transport})
           ELSE /\ last' = Response("DELETE", header, "close", "200", "",
                                    {}, {})
                /\ UNCHANGED <<transports, closing>>
        /\ UNCHANGED <<allowedBaseAbs, raw, resolved, fs, variant, sessions,
                       nextId>>

\* DELETE, resumed: the entry is removed and 200 is sent.
DeleteFinish ==
    \E sid \in BagToSet(closing) :
        /\ Idle
        /\ sessions' = SessionsAfterDelete(sid)
        /\ closing' = closing (-) SetToBag({sid})
        /\ last' = Response("DELETE", {sid}, "closed", "200", "", {}, {})
        /\ UNCHANGED <<allowedBaseAbs, raw, resolved, fs, variant,
                       transports, nextId>>

\* Any other method: 405.
HandleOtherMethod ==
    \E header \in Headers :
        /\ Idle
        /\ last' = Response("PUT", header, "none", "405", "", {}, {})
        /\ UNCHANGED <<allowedBaseAbs, raw, resolved, fs, variant, sessions,
                       transports, nextId, closing>>

\* POST /admin/clear-sessions
AdminClearSessions ==
    /\ Idle
    /\ sessions' = EmptyMap
    /\ last' = Response("POST", {}, "clear-sessions", "200", "", {}, {})
    /\ UNCHANGED <<allowedBaseAbs, raw, resolved, fs, variant, transports,
                   nextId, closing>>

(***************************************************************************)
(* Tool calls: a POST tools/call bearing a token of the registry is handed *)
(* to that session's transport, which runs the named tool's handler.       *)
(***************************************************************************)
\* A file holds at most MaxFileSize bytes, a block of DefaultMaxBytes - 1
\* equal bytes counting as one.
RECURSIVE SizeOf(_)
SizeOf(bytes) ==
    IF bytes = << >> THEN 0
    ELSE (IF bytes[1].n >= DefaultMaxBytes - 1
          THEN bytes[1].n - (DefaultMaxBytes - 1) + 1
          ELSE bytes[1].n) + SizeOf(Tail(bytes))

\* ... and no path is longer than MaxFsPathLen characters.
FitsBound(f) ==
    \A p \in DOMAIN f :
        SizeOf(f[p].data) <= MaxFileSize /\ Len(p) <= MaxFsPathLen

\* A server that drops the session whose tool call failed.
PostCallDropsSession(header, op, r) ==
    /\ Idle
    /\ Lookup(header) # {}
    /\ LET entry == CHOOSE e \in Lookup(header) : TRUE
           h == TransportHandle(transports[entry.transport], "POST", "call")
           ran == h.run /\ op \in RegisteredTools
       IN  /\ fs' = IF ran THEN r.fs ELSE fs
           /\ FitsBound(fs')
           /\ sessions' = IF ran /\ r.res # "ok"
                          THEN Remove(sessions, header) ELSE sessions
           /\ last' = [Response("POST", header, "call", h.status, h.code, {},
                                {entry.transport})
                       EXCEPT !.op = IF ran THEN op ELSE "none",
                              !.res = IF ran THEN r.res
                                      ELSE IF h.run THEN "Tool not found"
                                      ELSE "none"]
    /\ UNCHANGED <<allowedBaseAbs, raw, resolved, variant,
                   transports, nextId, closing>>

PostCall(header, op, r) ==
    /\ Idle
    /\ Lookup(header) # {}
    /\ LET entry == CHOOSE e \in Lookup(header) : TRUE
           h == TransportHandle(transports[entry.transport], "POST", "call")
           ran == h.run /\ op \in RegisteredTools
       IN  /\ fs' = IF ran THEN r.fs ELSE fs
           /\ FitsBound(fs')
           /\ last' = [Response("POST", header, "call", h.status, h.code, {},
                                {entry.transport})
                       EXCEPT !.op = IF ran THEN op ELSE "none",
                              !.res = IF ran THEN r.res
                                      ELSE IF h.run THEN "Tool not found"
                                      ELSE "none"]
    /\ UNCHANGED <<allowedBaseAbs, raw, resolved, variant, sessions,
                   transports, nextId, closing>>

CallFsList(P) ==
    \E header \in Headers, path \in {{}} \cup {{p} : p \in P} :
        PostCall(header, "fs_list", fs_list(fs, path))

CallFsRead(P, M) ==
    \E header \in Headers, path \in P, maxBytes \in M :
        PostCall(header, "fs_read", fs_read(fs, path, maxBytes))

CallReadFile(P, M) ==
    \E header \in Headers, path \in P, maxBytes \in M :
        PostCall(header, "read_file", read_file(fs, path, maxBytes))

CallFsWrite(P, C) ==
    \E header \in Headers, path \in P, content \in C :
        PostCall(header, "fs_write", fs_write(fs, path, content))

CallWriteFile(P, C) ==
    \E header \in Headers, path \in P, content \in C :
        PostCall(header, "write_file", write_file(fs, path, content))

CallFsAppend(P, C) ==
    \E header \in Headers, path \in P, content \in C :
        PostCall(header, "fs_append", fs_append(fs, path, content))

CallFsMkdir(P) ==
    \E header \in Headers, path \in P :
        PostCall(header, "fs_mkdir", fs_mkdir(fs, path))

CallFsRename(P) ==
    \E header \in Headers, oldPath \in P, newPath \in P :
        PostCall(header, "fs_rename", fs_rename(fs, oldPath, newPath))

CallFsDelete(P) ==
    \E header \in Headers, path \in P :
        PostCall(header, "fs_delete", fs_delete(fs, path))

CallFsCopy(P) ==
    \E header \in Headers, srcPath \in P, destPath \in P :
        PostCall(header, "fs_copy", fs_copy(fs, srcPath, destPath))

(***************************************************************************)
(* PathSpec: the guard as a pure function of the configured root and of    *)
(* every requested path of at most MaxPathLen characters.                  *)
(***************************************************************************)
\* path.resolve(ALLOWED_BASE) is absolute and normalised: these are roots
\* it can produce.
Roots == { <<Sep>>, <<Sep, "b">>, <<Sep, "b", Sep, "b">> }

NotCalled == [ok |-> FALSE, path |-> EmptyStr]

PathInit ==
    /\ allowedBaseAbs \in Roots
    /\ raw = EmptyStr
    /\ resolved = NotCalled
    /\ fs = Put(EmptyMap, <<Sep>>, DirEntry)
    /\ variant = "rw"
    /\ sessions = EmptyMap
    /\ transports = EmptyMap
    /\ nextId = 0
    /\ closing = EmptyBag
    /\ last = NoRequest

\* The caller extends the requested path by one character.
TypeChar ==
    /\ Len(raw) < MaxPathLen
    /\ \E c \in Chars : raw' = Append(raw, c)
    /\ resolved' = NotCalled
    /\ UNCHANGED <<allowedBaseAbs, fs, variant, sessions, transports, nextId,
                   closing, last>>

\* A handler calls safePath on the requested path.
CallSafePath ==
    /\ resolved = NotCalled
    /\ resolved' = safePath(raw)
    /\ UNCHANGED <<allowedBaseAbs, raw, fs, variant, sessions, transports,
                   nextId, closing, last>>

vars == <<allowedBaseAbs, raw, resolved, fs, variant, sessions, transports,
          nextId, closing, last>>

PathNext == TypeChar \/ CallSafePath

PathSpec == PathInit /\ [][PathNext]_vars

(***************************************************************************)
(* FsSpec: the tools, called through one initialised session, on a         *)
(* filesystem where the configured root /b/b exists beside a file /b/bb    *)
(* that is outside it.                                                     *)
(***************************************************************************)
RootBB == <<Sep, "b", Sep, "b">>

OutsideFile == <<Sep, "b", Sep, "b", "b">>

FsRootPresent ==
    Put(Put(Put(Put(EmptyMap, <<Sep>>, DirEntry), <<Sep, "b">>, DirEntry),
            RootBB, DirEntry),
        OutsideFile, FileEntry(Run("61", 1)))

FsRootAbsent == Put(EmptyMap, <<Sep>>, DirEntry)

\* Requested paths: the root, a child, a grandchild, a child whose name has
\* the first child's name as a prefix, and the file outside the root whose
\* path has the root's path as a prefix.
FsPaths ==
    { EmptyStr, <<"b">>, <<"b", Sep, "b">>, <<"b", "b">>,
      <<Dot, Dot, Sep, "b", "b">> }

\* A text of DefaultMaxBytes + 1 bytes whose last character straddles the cap.
BigText == Run("a", DefaultMaxBytes - 1) \o Run("e'", 1)

\* The contents the callers write: one two-byte character, and BigText.
Contents == { Run("e'", 1), BigText }

MaxBytesArgs == { {}, {1} }

FsInit ==
    /\ allowedBaseAbs = RootBB
    /\ raw = EmptyStr
    /\ resolved = NotCalled
    /\ fs = FsRootPresent
    /\ variant = "rw"
    /\ sessions = Put(EmptyMap, <<"uuid", 1>>, [transport |-> 1, mcp |-> 1])
    /\ transports = Put(EmptyMap, 1, [NewTransport EXCEPT !.initialized = TRUE])
    /\ nextId = 1
    /\ closing = EmptyBag
    /\ last = NoRequest

FsNext ==
    \/ CallFsList(FsPaths)
    \/ CallFsRead(FsPaths, MaxBytesArgs)
    \/ CallReadFile({<<"b">>}, {{}})
    \/ CallFsWrite(FsPaths, Contents)
    \/ CallWriteFile({<<"b">>}, {Run("e'", 1)})
    \/ CallFsAppend(FsPaths, Contents)
    \/ CallFsMkdir(FsPaths)
    \/ CallFsRename(FsPaths)
    \/ CallFsDelete(FsPaths)
    \/ CallFsCopy(FsPaths)
    \/ ResponseSent

FsSpec == FsInit /\ [][FsNext]_vars

(***************************************************************************)
(* ColdSpec: the same tools on a server started with ALLOWED_BASE naming a *)
(* directory /b/b that does not exist yet (nor does its parent /b): the    *)
(* server does not look at the root when it starts.                        *)
(***************************************************************************)
ColdInit ==
    /\ allowedBaseAbs = RootBB
    /\ raw = EmptyStr
    /\ resolved = NotCalled
    /\ fs = FsRootAbsent
    /\ variant = "rw"
    /\ sessions = Put(EmptyMap, <<"uuid", 1>>, [transport |-> 1, mcp |-> 1])
    /\ transports = Put(EmptyMap, 1, [NewTransport EXCEPT !.initialized = TRUE])
    /\ nextId = 1
    /\ closing = EmptyBag
    /\ last = NoRequest

ColdSpec == ColdInit /\ [][FsNext]_vars

(***************************************************************************)
(* Spec: the server from its start, with any number of clients: sessions   *)
(* are created, used for tool calls and closed.  The clients call a tool   *)
(* that reads, one that creates and one that removes; FsSpec has them all. *)
(***************************************************************************)
SpecPaths == { <<"b">> }

SpecContents == { Run("hs", 1) }

SpecMaxBytesArgs == { {} }

Init ==
    /\ allowedBaseAbs = RootBB
    /\ raw = EmptyStr
    /\ resolved = NotCalled
    /\ fs = FsRootPresent
    /\ variant = "rw"
    /\ sessions = EmptyMap
    /\ transports = EmptyMap
    /\ nextId = 0
    /\ closing = EmptyBag
    /\ last = NoRequest

Next ==
    \/ HandleGet
    \/ HandlePost
    \/ DeleteBegin
    \/ DeleteFinish
    \/ HandleOtherMethod
    \/ AdminClearSessions
    \/ CallFsRead(SpecPaths, SpecMaxBytesArgs)
    \/ CallFsWrite(SpecPaths, SpecContents)
    \/ CallFsDelete(SpecPaths)
    \/ ResponseSent

Spec == Init /\ [][Next]_vars

(***************************************************************************)
(* RoSpec: the read-only server from its start, its clients asking for     *)
(* every tool of the read-write server, on a root that holds one file.     *)
(***************************************************************************)
RoFs == Put(FsRootPresent, RootBB \o <<Sep, "b">>, FileEntry(Run("61", 1)))

RoInit ==
    /\ allowedBaseAbs = RootBB
    /\ raw = EmptyStr
    /\ resolved = NotCalled
    /\ fs = RoFs
    /\ variant = "ro"
    /\ sessions = EmptyMap
    /\ transports = EmptyMap
    /\ nextId = 0
    /\ closing = EmptyBag
    /\ last = NoRequest

RoNext ==
    \/ HandleGet
    \/ HandlePost
    \/ DeleteBegin
    \/ DeleteFinish
    \/ HandleOtherMethod
    \/ AdminClearSessions
    \/ CallFsList(SpecPaths)
    \/ CallFsRead(SpecPaths, SpecMaxBytesArgs)
    \/ CallReadFile(SpecPaths, SpecMaxBytesArgs)
    \/ CallFsWrite(SpecPaths, SpecContents)
    \/ CallWriteFile(SpecPaths, SpecContents)
    \/ CallFsAppend(SpecPaths, SpecContents)
    \/ CallFsMkdir(SpecPaths)
    \/ CallFsRename(SpecPaths)
    \/ CallFsDelete(SpecPaths)
    \/ CallFsCopy(SpecPaths)
    \/ ResponseSent

RoSpec == RoInit /\ [][RoNext]_vars

(***************************************************************************)
(* The path guard's claims, stated over path components rather than over   *)
(* the characters safePath works on.                                       *)
(***************************************************************************)
\* The segments of s between its separators ("a//b" has an empty one).
RECURSIVE Split(_, _)
Split(s, seg) ==
    IF s = EmptyStr THEN <<seg>>
    ELSE IF Head(s) = Sep THEN <<seg>> \o Split(Tail(s), EmptyStr)
    ELSE Split(Tail(s), Append(seg, Head(s)))

\* The directory reached by walking `comps` from the directory `stack`.
RECURSIVE Walk(_, _)
Walk(comps, stack) ==
    IF comps = << >> THEN stack
    ELSE LET c == Head(comps)
         IN  IF c = EmptyStr \/ c = <<Dot>> THEN Walk(Tail(comps), stack)
             ELSE IF c = <<Dot, Dot>>
             THEN Walk(Tail(comps),
                       IF stack = << >> THEN stack
                       ELSE SubSeq(stack, 1, Len(stack) - 1))
             ELSE Walk(Tail(comps), Append(stack, c))

RECURSIVE Join(_)
Join(stack) ==
    IF stack = << >> THEN EmptyStr
    ELSE IF Len(stack) = 1 THEN stack[1]
    ELSE stack[1] \o <<Sep>> \o Join(Tail(stack))

\* The normalised candidate of a requested path: where the trimmed request
\* leads, walking from "/" when it is absolute and from the root otherwise.
Candidate(base, rawPath) ==
    LET t == Trim(rawPath)
        from == IF PathIsAbsolute(t) THEN << >>
                ELSE Walk(Split(base, EmptyStr), << >>)
    IN  <<Sep>> \o Join(Walk(Split(t, EmptyStr), from))

IsRootOrBelow(base, p) ==
    \/ p = base
    \/ /\ Len(p) > Len(base) + 1
       /\ SubSeq(p, 1, Len(base)) = base
       /\ p[Len(base) + 1] = Sep

\* C1: safePath accepts a requested path iff its normalised candidate is the
\* root or the root, a separator and something more, and then returns that
\* candidate; an ancestor, a sibling, a sibling sharing the root's string
\* prefix and an absolute path outside are rejected, and a path that leaves
\* and re-enters the root is accepted.
C1_SafePathContainment ==
    resolved # NotCalled =>
        LET cand == Candidate(allowedBaseAbs, raw)
        IN  /\ resolved.ok <=> IsRootOrBelow(allowedBaseAbs, cand)
            /\ resolved.path = cand
            /\ allowedBaseAbs = RootBB =>
                 /\ raw = <<Dot, Dot>> => ~resolved.ok
                 /\ raw = <<Dot, Dot, Sep, "b", "b">> => ~resolved.ok
                 /\ raw = <<Dot, Dot, Sep, "b", "b", Sep, "b">> => ~resolved.ok
                 /\ raw = <<Sep, "b", "b">> => ~resolved.ok
                 /\ raw = <<Sep, "b">> => ~resolved.ok
                 /\ raw = <<Dot, Dot, Sep, "b", Sep, "b">> =>
                        resolved = [ok |-> TRUE, path |-> RootBB \o <<Sep, "b">>]

\* A path that leaves the root and re-enters it has been resolved.
C1_Witness ==
    /\ allowedBaseAbs = RootBB
    /\ raw = <<Dot, Dot, Sep, "b", Sep, "b">>
    /\ resolved = [ok |-> TRUE, path |-> RootBB \o <<Sep, "b">>]

\* path.relative(root, r) for an accepted r.
RelativeToRoot(r) ==
    IF r = allowedBaseAbs THEN EmptyStr
    ELSE SubSeq(r, Len(allowedBaseAbs) + 2, Len(r))

RoundTrips(r) == safePath(RelativeToRoot(r)) = [ok |-> TRUE, path |-> r]

\* C5 as stated: every accepted path is absolute, starts with the root, and
\* resolving its root-relative form again yields the same path.
C5_RoundTripAll ==
    resolved.ok =>
        /\ PathIsAbsolute(resolved.path)
        /\ StartsWith(resolved.path, allowedBaseAbs)
        /\ RoundTrips(resolved.path)

EdgeWhitespace(s) ==
    s # EmptyStr /\ (IsWhitespace(Head(s)) \/ IsWhitespace(s[Len(s)]))

\* C5 (amended): every accepted path is absolute and starts with the root,
\* and resolving its root-relative form again yields the same path whenever
\* that relative form neither begins nor ends with whitespace.
C5_RoundTripUntrimmed ==
    resolved.ok =>
        /\ PathIsAbsolute(resolved.path)
        /\ StartsWith(resolved.path, allowedBaseAbs)
        /\ ~EdgeWhitespace(RelativeToRoot(resolved.path)) =>
               RoundTrips(resolved.path)

\* An accepted descendant whose relative form is not touched by trimming.
C5_Witness ==
    /\ allowedBaseAbs = RootBB
    /\ raw = <<Dot, Sep, "b", " ", "b">>
    /\ resolved.ok
    /\ RelativeToRoot(resolved.path) = <<"b", " ", "b">>
    /\ RoundTrips(resolved.path)

(***************************************************************************)
(* The tools' claims.  Each is stated for the filesystem of every          *)
(* reachable state and for every argument of the sets below, which hold    *)
(* more paths and contents than the callers of FsSpec send.                *)
(***************************************************************************)
\* The root, a child, a grandchild and a second child.
InsidePaths == { EmptyStr, <<"b">>, <<"b", Sep, "b">>, <<"b", "b">> }

\* The root's parent, a sibling sharing the root's string prefix (relative
\* and absolute).
OutsidePaths ==
    { <<Dot, Dot>>, <<Dot, Dot, Sep, "b", "b">>, <<Sep, "b", Sep, "b", "b">> }

ClaimPaths == InsidePaths \cup OutsidePaths

\* Where p leads is neither the root nor below it.
ResolvesOutside(p) ==
    ~IsRootOrBelow(allowedBaseAbs, Candidate(allowedBaseAbs, p))

OutsideRoot(abs) == ~IsRootOrBelow(allowedBaseAbs, abs)

\* C2 as stated: no step creates, changes or removes an entry that is
\* neither the root nor below it.
C2_OutsideUnchanged ==
    [][\A q \in DOMAIN fs \cup DOMAIN fs' :
          OutsideRoot(q) =>
              /\ q \in DOMAIN fs
              /\ q \in DOMAIN fs'
              /\ fs'[q] = fs[q]]_vars

\* The containment rejection, thrown before any filesystem call.
RejectedUntouched(f, r) ==
    /\ r.res = "Path not allowed"
    /\ r.calls = << >>
    /\ r.fs = f

\* C3: an operation one of whose path arguments resolves outside the root
\* fails with the containment rejection, having made no filesystem call and
\* no change; for fs_rename and fs_copy this holds whichever of the two
\* paths is the one outside.
C3_RejectedBeforeAnyCall ==
    \A p \in ClaimPaths :
        ResolvesOutside(p) =>
            /\ RejectedUntouched(fs, fs_list(fs, {p}))
            /\ RejectedUntouched(fs, fs_read(fs, p, {}))
            /\ RejectedUntouched(fs, read_file(fs, p, {}))
            /\ RejectedUntouched(fs, fs_write(fs, p, Run("e'", 1)))
            /\ RejectedUntouched(fs, write_file(fs, p, Run("e'", 1)))
            /\ RejectedUntouched(fs, fs_append(fs, p, Run("e'", 1)))
            /\ RejectedUntouched(fs, fs_mkdir(fs, p))
            /\ RejectedUntouched(fs, fs_delete(fs, p))
            /\ \A q \in ClaimPaths :
                   /\ RejectedUntouched(fs, fs_rename(fs, p, q))
                   /\ RejectedUntouched(fs, fs_rename(fs, q, p))
                   /\ RejectedUntouched(fs, fs_copy(fs, p, q))
                   /\ RejectedUntouched(fs, fs_copy(fs, q, p))

\* A copy was rejected while its source could have been a file of the root,
\* and the file outside the root is as it was.
C3_Witness ==
    /\ last.op = "fs_copy"
    /\ last.res = "Path not allowed"
    /\ IsFile(fs, RootBB \o <<Sep, "b">>)
    /\ fs[OutsideFile] = FsRootPresent[OutsideFile]

\* Ways to name the root: nothing, ".", whitespace, "./", its absolute
\* path, and a child's parent.
RootForms ==
    { EmptyStr, <<Dot>>, <<Space>>, <<Dot, Sep>>, RootBB,
      <<"b", Sep, Dot, Dot>> }

\* C4: fs_delete of any form of the root fails with the forbidden-target
\* error whatever the filesystem holds, makes no filesystem call and
\* changes nothing.
C4_DeleteRootForbidden ==
    \A p \in RootForms :
        /\ Candidate(allowedBaseAbs, p) = allowedBaseAbs
        /\ fs_delete(fs, p) = Thrown(fs, "Cannot delete ALLOWED_BASE", << >>)

\* fs_delete has refused the root while the root held a directory.
C4_Witness ==
    /\ last.op = "fs_delete"
    /\ last.res = "Cannot delete ALLOWED_BASE"
    /\ IsDir(fs, RootBB \o <<Sep, "b">>)

\* Texts written by the claims: empty, one two-byte character, a lone
\* surrogate, a lone surrogate after a letter, and BigText.
ClaimContents ==
    { << >>, Run("e'", 1), Run("hs", 1), Run("a", 1) \o Run("hs", 1),
      BigText }

Min(x, y) == IF x < y THEN x ELSE y

\* The longest prefix of the text c whose UTF-8 encoding fits in `room`
\* bytes.
RECURSIVE TruncateText(_, _)
TruncateText(c, room) ==
    IF c = << >> THEN << >>
    ELSE LET u == RLen(Utf8Unit(c[1].c))
             k == Min(c[1].n, room \div u)
         IN  IF k = 0 THEN << >>
             ELSE IF k < c[1].n THEN Run(c[1].c, k)
             ELSE RCat(Run(c[1].c, k), TruncateText(Tail(c), room - k * u))

\* What a read without maxBytes returns for a file holding `bytes`.
TextOf(bytes) == Utf8Decode(RTake(bytes, DefaultMaxBytes))

WellFormed(c) == \A i \in 1..Len(c) : c[i].c # "hs"

\* abs can be written as a file: it is not a directory and no file stands
\* where one of its parent directories should.
Writable(f, abs) ==
    /\ ~IsDir(f, abs)
    /\ \A q \in DOMAIN f : Below(q, abs) => IsDir(f, q)

\* C6 as stated: a successful fs_write(p, c) followed by fs_read(p) returns
\* exactly c, cut to the default cap.
C6_WriteThenReadExact ==
    \A p \in InsidePaths, c \in ClaimContents :
        LET w == fs_write(fs, p, c)
            r == fs_read(w.fs, p, {})
        IN  w.res = "ok" =>
                /\ r.res = "ok"
                /\ r.out = TruncateText(c, DefaultMaxBytes)

\* C6 (amended): fs_write(p, c) succeeds wherever p is not a directory and
\* lies under no file, creating p's missing parent directories and
\* replacing whatever p held; fs_read(p) then returns the UTF-8 decoding of
\* the first 1 MiB of c's UTF-8 encoding, which is exactly c when c has no
\* lone surrogate and its encoding has at most 1 MiB.
C6_WriteThenReadStored ==
    \A p \in InsidePaths, c \in ClaimContents :
        LET abs == safePath(p).path
            w == fs_write(fs, p, c)
            r == fs_read(w.fs, p, {})
        IN  /\ w.res = "ok" <=> Writable(fs, abs)
            /\ w.res = "ok" =>
                   /\ w.fs[abs] = FileEntry(Utf8Encode(c))
                   /\ r.res = "ok"
                   /\ r.out = TextOf(Utf8Encode(c))
                   /\ WellFormed(c) /\ RLen(Utf8Encode(c)) <= DefaultMaxBytes
                          => r.out = c

\* BigText was written to a file whose parent directory the write created,
\* and a read has returned.
C6_Witness ==
    /\ last.op = "fs_read"
    /\ last.res = "ok"
    /\ IsFile(fs, RootBB \o <<Sep, "b", Sep, "b">>)
    /\ fs[RootBB \o <<Sep, "b", Sep, "b">>].data = Utf8Encode(BigText)
    /\ fs_read(fs, <<"b", Sep, "b">>, {}).out
           = Run("a", DefaultMaxBytes - 1) \o Run("rc", 1)

\* The bytes of the file at abs, none when there is no such file.
BytesAt(f, abs) == IF IsFile(f, abs) THEN f[abs].data ELSE << >>

\* C7 as stated: fs_append(p, a), fs_append(p, b), fs_read(p) returns a+b
\* (for a file that did not exist before).
C7_AppendAppendExact ==
    \A p \in {<<"b">>, <<"b", Sep, "b">>}, a \in ClaimContents,
       b \in ClaimContents :
        LET abs == safePath(p).path
            w1 == fs_append(fs, p, a)
            w2 == fs_append(w1.fs, p, b)
            r == fs_read(w2.fs, p, {})
        IN  ~Exists(fs, abs) /\ w1.res = "ok" /\ w2.res = "ok" =>
                /\ r.res = "ok"
                /\ r.out = RCat(a, b)

\* C7 (amended): fs_append(p, a) succeeds wherever p is not a directory and
\* lies under no file, creating the file and its missing parent directories
\* when absent; after fs_append(p, a) and fs_append(p, b) the file holds
\* the bytes it held before followed by the UTF-8 encodings of a and of b,
\* and fs_read(p) returns the UTF-8 decoding of the first 1 MiB of that.
C7_AppendAppendStored ==
    \A p \in {<<"b">>, <<"b", Sep, "b">>},
       a \in {Run("e'", 1), Run("hs", 1), BigText},
       b \in {Run("e'", 1), Run("hs", 1), BigText} :
        LET abs == safePath(p).path
            w1 == fs_append(fs, p, a)
            w2 == fs_append(w1.fs, p, b)
            r == fs_read(w2.fs, p, {})
            all == RCat(RCat(BytesAt(fs, abs), Utf8Encode(a)), Utf8Encode(b))
        IN  /\ w1.res = "ok" <=> Writable(fs, abs)
            /\ w1.res = "ok" =>
                   /\ w2.res = "ok"
                   /\ w2.fs[abs] = FileEntry(all)
                   /\ r.res = "ok"
                   /\ r.out = TextOf(all)

\* Two appends have built a file of two characters.
C7_Witness ==
    /\ last.op = "fs_append"
    /\ last.res = "ok"
    /\ IsFile(fs, RootBB \o <<Sep, "b">>)
    /\ fs[RootBB \o <<Sep, "b">>].data = Utf8Encode(Run("e'", 2))
    /\ fs_read(fs, <<"b">>, {}).out = Run("e'", 2)

(***************************************************************************)
(* The session registry's claims.  `last` is the request a step handled    *)
(* and the response it got, so last' in a step formula describes the       *)
(* request of that step, and the unprimed registry the one it found.       *)
(***************************************************************************)
NonInitKinds == {"other", "call"}

\* No session was created, the registry and every transport are as they
\* were, and no handler ran.
NothingHappened ==
    /\ last'.created = {}
    /\ last'.routed = {}
    /\ last'.op = "none"
    /\ sessions' = sessions
    /\ transports' = transports
    /\ nextId' = nextId
    /\ fs' = fs

\* C8: a POST that is not an initialize request and bears no token, or a
\* token that is not in the registry, is answered 400 with error code
\* -32000; no session is created, the registry is unchanged, no handler
\* runs and the filesystem is unchanged.
C8_PostWithoutSessionRejected ==
    [][(/\ last'.method = "POST"
        /\ last'.kind \in NonInitKinds
        /\ Lookup(last'.sid) = {})
       => (/\ last'.status = "400"
           /\ last'.code = "-32000"
           /\ NothingHappened)]_vars

\* A tool call bearing a forged token was rejected while a session was
\* active.
C8_Witness ==
    /\ last.method = "POST"
    /\ last.kind = "call"
    /\ last.sid = {ForgedToken}
    /\ last.status = "400"
    /\ last.code = "-32000"
    /\ DOMAIN sessions # {}

\* The tokens of closed sessions: issued, and no longer in the registry.
ClosedTokens == IssuedTokens \ DOMAIN sessions

\* C9: only issued tokens are in the registry; a finished DELETE and a bulk
\* clear leave their tokens out of it; a closed token never re-enters it;
\* and a later request that bears a closed token and is not an initialize
\* request is answered as one bearing a never-seen token is: 400 with code
\* -32000, and never routed to a transport that existed before.
C9_NoResurrection ==
    [][/\ DOMAIN sessions' \subseteq { <<"uuid", k>> : k \in 1..nextId' }
       /\ last'.kind = "closed" => \A t \in last'.sid : t \notin DOMAIN sessions'
       /\ last'.kind = "clear-sessions" => DOMAIN sessions' = {}
       /\ \A t \in ClosedTokens :
              /\ t \notin DOMAIN sessions'
              /\ (/\ last'.sid = {t}
                  /\ last'.method \in {"POST", "GET"}
                  /\ last'.kind \in NonInitKinds \cup {"stream"})
                 => (/\ last'.status = "400"
                     /\ last'.code = "-32000"
                     /\ last'.routed \cap DOMAIN transports = {}
                     /\ last'.op = "none"
                     /\ fs' = fs)]_vars

\* A request bearing the token of a session that was created by an
\* initialize request and then closed has been rejected.
C9_Witness ==
    /\ nextId = 1
    /\ <<"uuid", 1>> \in ClosedTokens
    /\ transports[1].initialized
    /\ last.method = "POST"
    /\ last.kind = "other"
    /\ last.sid = {<<"uuid", 1>>}
    /\ last.status = "400"
    /\ last.code = "-32000"

\* C10 as stated: a request that bears a token not in the registry and is
\* not an initialize request (a tool call, another JSON-RPC request or a
\* stream-open) is rejected as a client error and creates no session.
C10_UnknownTokenNeverCreates ==
    [][(/\ last'.sid # {}
        /\ Lookup(last'.sid) = {}
        /\ last'.method \in {"POST", "GET"}
        /\ last'.kind \in NonInitKinds \cup {"stream"})
       => (/\ last'.status = "400"
           /\ last'.created = {}
           /\ sessions' = sessions
           /\ nextId' = nextId)]_vars

\* C11: a DELETE bearing a token of the registry closes that session's
\* transport (ending its server-push stream) and, when it completes,
\* answers 200 and has removed that token's entry and no other; a DELETE
\* bearing a closed, forged or no token answers 200 and changes nothing.
C11_CloseIdempotent ==
    [][/\ (last'.method = "DELETE" /\ last'.kind = "close"
             /\ Lookup(last'.sid) # {})
          => LET k == (CHOOSE e \in Lookup(last'.sid) : TRUE).transport
             IN  /\ last'.routed = {k}
                 /\ transports'[k].closes = transports[k].closes + 1
                 /\ ~transports'[k].sse
                 /\ \A j \in DOMAIN transports \ {k} :
                        transports'[j] = transports[j]
       /\ (last'.method = "DELETE" /\ last'.kind = "closed")
          => /\ last'.status = "200"
             /\ sessions' = Remove(sessions, last'.sid)
             /\ transports' = transports
       /\ (last'.method = "DELETE" /\ last'.kind = "close"
             /\ Lookup(last'.sid) = {})
          => /\ last'.status = "200"
             /\ sessions' = sessions
             /\ transports' = transports
             /\ closing' = closing
             /\ nextId' = nextId
             /\ fs' = fs]_vars

\* The first of two sessions has been closed by a DELETE that completed:
\* its stream is ended, its entry is gone, the other session's entry stays.
C11_Witness ==
    /\ last.method = "DELETE"
    /\ last.kind = "closed"
    /\ last.sid = {<<"uuid", 1>>}
    /\ transports[1].closes = 1
    /\ DOMAIN sessions = {<<"uuid", 2>>}
    /\ sessions[<<"uuid", 2>>] = [transport |-> 2, mcp |-> 2]

\* C12 as stated: after a bulk clear the registry is empty and the
\* transport of every session that was active has been closed, its
\* server-push stream ended, as a DELETE does for one session.
C12_ClearReleasesTransports ==
    [][last'.kind = "clear-sessions" =>
          /\ sessions' = EmptyMap
          /\ \A t \in DOMAIN sessions :
                 LET k == sessions[t].transport
                 IN  /\ transports'[k].closes > transports[k].closes
                     /\ ~transports'[k].sse]_vars

\* C13: the entries of the registry have pairwise distinct transports and
\* servers, and a request bearing a token of the registry is handed to
\* that token's transport and to no other, no session being created.
C13_OwnContextOnly ==
    [][/\ \A t \in DOMAIN sessions', u \in DOMAIN sessions' :
              t # u => /\ sessions'[t].transport # sessions'[u].transport
                       /\ sessions'[t].mcp # sessions'[u].mcp
       /\ \A t \in DOMAIN sessions :
              last'.sid = {t} /\ last'.kind # "closed" =>
                  /\ last'.routed \subseteq {sessions[t].transport}
                  /\ last'.method \in {"GET", "POST", "DELETE"}
                         => last'.routed = {sessions[t].transport}
                  /\ last'.created = {}
                  /\ nextId' = nextId
                  /\ \A j \in DOMAIN transports \ {sessions[t].transport} :
                         transports'[j] = transports[j]]_vars

\* With two sessions active, a tool call bearing the second one's token
\* ran on the second one's transport.
C13_Witness ==
    /\ DOMAIN sessions = {<<"uuid", 1>>, <<"uuid", 2>>}
    /\ last.kind = "call"
    /\ last.sid = {<<"uuid", 2>>}
    /\ last.routed = {2}
    /\ last.op = "fs_write"
    /\ last.res = "ok"

ReadingTools == {"fs_list", "fs_read", "read_file"}

\* C14: the read-only server registers fs_list, fs_read and read_file only;
\* no request changes its filesystem and no other handler ever runs; and
\* its sessions are created, looked up, rejected and closed as the
\* read-write server's are.
C14_ReadOnlyVariant ==
    [][/\ RegisteredTools = ReadingTools
       /\ fs' = fs
       /\ last'.op \in ReadingTools \cup {"none"}
       /\ DOMAIN sessions' \subseteq { <<"uuid", k>> : k \in 1..nextId' }
       /\ last'.created # {} =>
              /\ last'.created = {<<"uuid", nextId + 1>>}
              /\ Lookup(last'.sid) = {}
              /\ sessions' = Put(sessions, <<"uuid", nextId + 1>>,
                                 [transport |-> nextId + 1,
                                  mcp |-> nextId + 1])
       /\ (last'.method = "POST" /\ last'.kind \in NonInitKinds
             /\ Lookup(last'.sid) = {})
          => /\ last'.status = "400"
             /\ last'.code = "-32000"
             /\ sessions' = sessions
       /\ (last'.method = "POST" /\ last'.kind = "initialize"
             /\ Lookup(last'.sid) = {})
          => last'.created # {}
       /\ last'.kind = "closed" => sessions' = Remove(sessions, last'.sid)
       /\ last'.kind = "clear-sessions" => sessions' = EmptyMap]_vars

\* A session of the read-only server was asked for a tool it does not
\* have, and the filesystem is as it was at the start.
C14_Witness ==
    /\ variant = "ro"
    /\ last.kind = "call"
    /\ last.status = "200"
    /\ last.res = "Tool not found"
    /\ last.sid = {<<"uuid", 2>>}
    /\ fs = RoFs

\* C15 as stated: after a successful fs_rename(old, new) of a file,
\* fs_read(old) fails as not found and fs_read(new) returns what
\* fs_read(old) returned before, new's parent directory existing; and
\* fs_rename of a missing source fails.
C15_RenameMovesFile ==
    \A old \in InsidePaths, new \in InsidePaths :
        LET absOld == safePath(old).path
            absNew == safePath(new).path
            before == fs_read(fs, old, {})
            r == fs_rename(fs, old, new)
        IN  /\ IsFile(fs, absOld) /\ r.res = "ok" =>
                   /\ fs_read(r.fs, old, {}).res = "ENOENT"
                   /\ fs_read(r.fs, new, {}) = [before EXCEPT
                          !.fs = r.fs,
                          !.calls = <<FsCall("stat", absNew),
                                      FsCall("readFile", absNew)>>]
                   /\ IsDir(r.fs, PathDirname(absNew))
            /\ ~Exists(fs, absOld) => r.res # "ok"

\* C15 (amended): the same, for old and new resolving to different paths;
\* when they resolve to the same existing file the rename succeeds and
\* changes nothing, so that fs_read(old) still returns the content.
C15_RenameMovesFileElsewhere ==
    \A old \in InsidePaths, new \in InsidePaths :
        LET absOld == safePath(old).path
            absNew == safePath(new).path
            before == fs_read(fs, old, {})
            r == fs_rename(fs, old, new)
        IN  /\ IsFile(fs, absOld) /\ r.res = "ok" /\ absOld # absNew =>
                   /\ fs_read(r.fs, old, {}).res = "ENOENT"
                   /\ ~Exists(r.fs, absOld)
                   /\ r.fs[absNew] = fs[absOld]
                   /\ fs_read(r.fs, new, {}) = [before EXCEPT
                          !.fs = r.fs,
                          !.calls = <<FsCall("stat", absNew),
                                      FsCall("readFile", absNew)>>]
                   /\ IsDir(r.fs, PathDirname(absNew))
            /\ IsFile(fs, absOld) /\ absOld = absNew =>
                   /\ r.res = "ok"
                   /\ r.fs = fs
                   /\ fs_read(r.fs, old, {}) = before
            /\ ~Exists(fs, absOld) => r.res # "ok"

\* A file has been moved into a directory the rename created.
C15_Witness ==
    /\ last.op = "fs_rename"
    /\ last.res = "ok"
    /\ DOMAIN fs = DOMAIN FsRootPresent
                   \cup {RootBB \o <<Sep, "b">>, RootBB \o <<Sep, "b", Sep, "b">>}
    /\ fs[RootBB \o <<Sep, "b", Sep, "b">>] = FileEntry(Utf8Encode(BigText))

\* C16 as stated: when the source is an existing file the copy succeeds,
\* the source is unchanged and fs_read(dest) returns what fs_read(source)
\* returns; when the source is missing or a directory the copy fails, the
\* filesystem is unchanged and no mkdir was called.
C16_CopyFileContent ==
    \A src \in InsidePaths, dest \in InsidePaths :
        LET absSrc == safePath(src).path
            absDest == safePath(dest).path
            r == fs_copy(fs, src, dest)
        IN  /\ IsFile(fs, absSrc) =>
                   /\ r.res = "ok"
                   /\ r.fs[absSrc] = fs[absSrc]
                   /\ fs_read(r.fs, dest, {}).res = "ok"
                   /\ fs_read(r.fs, dest, {}).out = fs_read(fs, src, {}).out
            /\ ~IsFile(fs, absSrc) =>
                   /\ r.res # "ok"
                   /\ r.fs = fs
                   /\ \A i \in 1..Len(r.calls) : r.calls[i].fn # "mkdir"

\* C16 (amended): when the source is an existing file and the destination
\* is not a directory and lies under no file, the copy succeeds, creating
\* the destination's missing parent directories: the source is unchanged,
\* the destination is a file with the source's bytes and fs_read(dest)
\* returns what fs_read(source) returns; when the destination is a
\* directory or lies under a file the copy fails and the filesystem is
\* unchanged; when the source is missing or a directory the copy fails, the
\* filesystem is unchanged and no mkdir was called.
C16_CopyFileContentWhereWritable ==
    \A src \in InsidePaths, dest \in InsidePaths :
        LET absSrc == safePath(src).path
            absDest == safePath(dest).path
            r == fs_copy(fs, src, dest)
        IN  /\ IsFile(fs, absSrc) /\ Writable(fs, absDest) =>
                   /\ r.res = "ok"
                   /\ IsFile(r.fs, absSrc)
                   /\ IsFile(r.fs, absDest)
                   /\ r.fs[absSrc] = fs[absSrc]
                   /\ r.fs[absDest] = fs[absSrc]
                   /\ IsDir(r.fs, PathDirname(absDest))
                   /\ fs_read(r.fs, dest, {}).res = "ok"
                   /\ fs_read(r.fs, dest, {}).out = fs_read(fs, src, {}).out
            /\ IsFile(fs, absSrc) /\ ~Writable(fs, absDest) =>
                   /\ r.res # "ok"
                   /\ r.fs = fs
            /\ ~IsFile(fs, absSrc) =>
                   /\ r.res # "ok"
                   /\ r.fs = fs
                   /\ \A i \in 1..Len(r.calls) : r.calls[i].fn # "mkdir"

\* A file has been copied into a directory the copy created.
C16_Witness ==
    /\ last.op = "fs_copy"
    /\ last.res = "ok"
    /\ IsFile(fs, RootBB \o <<Sep, "b", "b">>)
    /\ IsFile(fs, RootBB \o <<Sep, "b", Sep, "b">>)
    /\ fs[RootBB \o <<Sep, "b", Sep, "b">>] = fs[RootBB \o <<Sep, "b", "b">>]
    /\ fs[RootBB \o <<Sep, "b", "b">>].data = Utf8Encode(BigText)

\* C17: while a DELETE for token t is suspended in transport.close(), no
\* GET or POST bearing t is handed to t's transport, and no transport is
\* ever closed more than once.
C17_ClosePathSerialized ==
    /\ \A k \in DOMAIN transports : transports[k].closes <= 1
    /\ (/\ last.method \in {"GET", "POST"}
        /\ last.sid # {}
        /\ last.sid \subseteq BagToSet(closing)) => last.routed = {}

\* C18: a request that creates a session adds exactly one entry, under a
\* token that was never issued and is not in the registry, every other
\* entry staying as it was; an initialize POST or a GET that finds no
\* session always creates one; no other request adds an entry.
C18_CreationAtomic ==
    [][/\ last'.created # {} =>
              LET t == CHOOSE x \in last'.created : TRUE
              IN  /\ last'.created = {t}
                  /\ t \notin IssuedTokens
                  /\ t \notin DOMAIN sessions
                  /\ t \in IssuedTokens'
                  /\ DOMAIN sessions' = DOMAIN sessions \cup {t}
                  /\ \A u \in DOMAIN sessions : sessions'[u] = sessions[u]
                  /\ Cardinality(DOMAIN sessions')
                       = Cardinality(DOMAIN sessions) + 1
                  /\ sessions'[t].transport \notin DOMAIN transports
                  /\ \A u \in DOMAIN sessions :
                         sessions'[u].transport # sessions'[t].transport
       /\ (/\ Lookup(last'.sid) = {}
           /\ \/ last'.method = "GET"
              \/ last'.method = "POST" /\ last'.kind = "initialize")
              => last'.created # {}
       /\ last'.created = {} => DOMAIN sessions' \subseteq DOMAIN sessions]_vars

\* Two sessions were created one after the other, the second by a GET
\* without a token, and both are in the registry.
C18_Witness ==
    /\ last.created = {<<"uuid", 2>>}
    /\ last.method = "GET"
    /\ DOMAIN sessions = {<<"uuid", 1>>, <<"uuid", 2>>}
    /\ sessions[<<"uuid", 1>>] # sessions[<<"uuid", 2>>]

\* The filesystem calls each tool makes for the claims' arguments.
CallsOf(p, q) ==
    { fs_list(fs, {p}).calls, fs_list(fs, {}).calls,
      fs_read(fs, p, {}).calls, read_file(fs, p, {}).calls,
      fs_write(fs, p, Run("e'", 1)).calls,
      write_file(fs, p, Run("e'", 1)).calls,
      fs_append(fs, p, Run("e'", 1)).calls,
      fs_mkdir(fs, p).calls, fs_rename(fs, p, q).calls,
      fs_delete(fs, p).calls, fs_copy(fs, p, q).calls }

\* C19: every path any tool hands to a filesystem call is the root or
\* below it, whatever the arguments, the parent-directory creation of
\* fs_write, fs_append, fs_rename and fs_copy for a target resolving to the
\* root included.
C19_EveryCallInsideRoot ==
    \A p \in ClaimPaths, q \in ClaimPaths :
        \A calls \in CallsOf(p, q) :
            \A i \in 1..Len(calls) :
                IsRootOrBelow(allowedBaseAbs, calls[i].path)

\* C20: the root is a directory in every state; fs_delete refuses it;
\* fs_rename from or to the root leaves it a directory, and fails unless
\* both paths resolve to the root, where it changes nothing; fs_write,
\* fs_append and fs_copy targeting the root fail and change nothing.
C20_RootStaysDirectory ==
    /\ IsDir(fs, allowedBaseAbs)
    /\ \A p \in RootForms :
           /\ fs_delete(fs, p).res # "ok"
           /\ fs_delete(fs, p).fs = fs
           /\ \A c \in ClaimContents :
                  /\ fs_write(fs, p, c).res # "ok"
                  /\ fs_write(fs, p, c).fs = fs
                  /\ write_file(fs, p, c).res # "ok"
                  /\ write_file(fs, p, c).fs = fs
                  /\ fs_append(fs, p, c).res # "ok"
                  /\ fs_append(fs, p, c).fs = fs
           /\ \A q \in InsidePaths :
                  LET away == fs_rename(fs, p, q)
                      onto == fs_rename(fs, q, p)
                      copy == fs_copy(fs, q, p)
                      same == safePath(q).path = allowedBaseAbs
                  IN  /\ IsDir(away.fs, allowedBaseAbs)
                      /\ IsDir(onto.fs, allowedBaseAbs)
                      /\ ~same => away.res # "ok" /\ onto.res # "ok"
                      /\ same => away.fs = fs /\ onto.fs = fs
                      /\ onto.fs = fs
                      /\ copy.res # "ok"
                      /\ copy.fs = fs

\* fs_rename has refused to move a directory while the root held entries.
C20_Witness ==
    /\ last.op = "fs_rename"
    /\ last.res \in {"EINVAL", "ENOTEMPTY", "EISDIR", "ENOTDIR"}
    /\ IsDir(fs, allowedBaseAbs)
    /\ IsFile(fs, RootBB \o <<Sep, "b", "b">>)

\* What each tool does for the claims' arguments.
ResultsOf(p, q, c) ==
    { fs_list(fs, {p}), fs_read(fs, p, {}), read_file(fs, p, {}),
      fs_write(fs, p, c), write_file(fs, p, c), fs_append(fs, p, c),
      fs_mkdir(fs, p), fs_rename(fs, p, q), fs_delete(fs, p),
      fs_copy(fs, p, q) }

\* C21: a tool call that fails leaves the filesystem as it found it,
\* whatever the tool and its arguments: fs_rename of a missing source, and
\* fs_write and fs_append onto a directory, create no parent directory.
C21_FailureChangesNothing ==
    \A p \in ClaimPaths, q \in ClaimPaths, c \in ClaimContents :
        \A r \in ResultsOf(p, q, c) : r.res # "ok" => r.fs = fs

\* C22: a tool call that fails leaves the registry, the transports and the
\* pending closes as they were; the session that made the call is still
\* in the registry under its token, and a next tool call bearing that
\* token is handed to the same transport, which runs it.
C22_FailureKeepsSession ==
    [][(last'.kind = "call" /\ last'.op # "none" /\ last'.res # "ok") =>
           /\ sessions' = sessions
           /\ transports' = transports
           /\ nextId' = nextId
           /\ closing' = closing
           /\ last'.status = "200"
           /\ \E t \in last'.sid :
                  /\ last'.sid = {t}
                  /\ t \in DOMAIN sessions'
                  /\ last'.routed = {sessions'[t].transport}
                  /\ TransportHandle(transports'[sessions'[t].transport],
                                     "POST", "call")
                       = [tr |-> transports'[sessions'[t].transport],
                          status |-> "200", code |-> "", run |-> TRUE]]_vars

\* A tool call has been rejected by the containment check after an earlier
\* call of the same session wrote a file, and the session is still there.
C22_Witness ==
    /\ last.kind = "call"
    /\ last.res = "Path not allowed"
    /\ last.sid = {<<"uuid", 1>>}
    /\ <<"uuid", 1>> \in DOMAIN sessions
    /\ transports[sessions[<<"uuid", 1>>].transport].initialized
    /\ IsFile(fs, RootBB \o <<Sep, "b", Sep, "b">>)

\* The names on the way from "/" to the absolute path p.
Components(p) == Walk(Split(p, EmptyStr), << >>)

\* x is the entry at p or an entry below it, name by name.
AtOrUnder(p, x) ==
    /\ Len(Components(p)) <= Len(Components(x))
    /\ SubSeq(Components(x), 1, Len(Components(p))) = Components(p)

\* C23: a successful fs_delete(p) removes the entry at p and every entry
\* below it and leaves every other entry as it was, a sibling whose name
\* begins with p's name included; fs_delete of an existing entry other
\* than the root succeeds; fs_delete of a missing target fails and changes
\* nothing.
C23_DeleteRemovesExactly ==
    \A p \in ClaimPaths \cup RootForms :
        LET sp == safePath(p)
            abs == sp.path
            r == fs_delete(fs, p)
        IN  /\ r.res = "ok" =>
                   /\ sp.ok
                   /\ Exists(fs, abs)
                   /\ DOMAIN r.fs
                        = { x \in DOMAIN fs : ~AtOrUnder(abs, x) }
                   /\ \A x \in DOMAIN r.fs : r.fs[x] = fs[x]
            /\ (sp.ok /\ Exists(fs, abs) /\ abs # allowedBaseAbs)
                   => r.res = "ok"
            /\ (sp.ok /\ ~Exists(fs, abs)) => (r.res # "ok" /\ r.fs = fs)
            /\ ~sp.ok => (r.res # "ok" /\ r.fs = fs)

\* The entry b has been deleted, and the file bb next to it is still
\* there with its content.
C23_Witness ==
    /\ last.op = "fs_delete"
    /\ last.res = "ok"
    /\ ~Exists(fs, RootBB \o <<Sep, "b">>)
    /\ DOMAIN fs = DOMAIN FsRootPresent \cup {RootBB \o <<Sep, "b", "b">>}
    /\ fs[RootBB \o <<Sep, "b", "b">>] = FileEntry(Utf8Encode(BigText))

====
